---- MODULE Spec2Model ----
(***************************************************************************)
(* The wallet engine of src/src/utils/walletService.js over the four       *)
(* Mongoose collections (AssetType, Account, Transaction, LedgerEntry).    *)
(* Every await on a store call is one atomic step of a request handler;    *)
(* request handlers interleave freely between their steps.                 *)
(* Amounts are the integers the seeded asset types use (decimalPlaces 0).  *)
(***************************************************************************)
EXTENDS Integers, Sequences, FiniteSets, TLC

VARIABLES
    accounts,      \* Account collection: account key -> document
    transactions,  \* Transaction collection: sequence, _id = position
    ledger,        \* LedgerEntry collection: set of documents
    pc,            \* per request handler: the await it is suspended at
    call,          \* per request handler: the request it serves
    txn,           \* per request handler: transaction._id (0: none yet)
    updatedFrom,   \* per request handler: <<balance>> of updatedFrom, <<>> unset
    updatedTo,     \* per request handler: <<balance>> of updatedTo, <<>> unset
    created,       \* per request handler: entry types whose LedgerEntry.create resolved
    err,           \* per request handler: message of the caught error
    result         \* per request handler: what the call returned or threw

vars == <<accounts, transactions, ledger, pc, call, txn, updatedFrom, updatedTo, created, err, result>>

\* ------------------------------------------------------------------ bounds

\* Number of request handlers (each serves one call).
NumWorkers == 2

Workers == 1..NumWorkers

\* ------------------------------------------------------------- seed data

AssetCodes == {"GOLD", "POINTS"}

SystemUserIds == {"SYSTEM_TREASURY", "SYSTEM_BONUS_POOL", "SYSTEM_REVENUE"}

UserIds == {"user_alice", "user_bob"}

\* One account per (userId, assetType): the unique index of Account.
AccountKeys == (SystemUserIds \cup UserIds) \X AssetCodes

AccountType(k) == IF k[1] \in SystemUserIds THEN "system" ELSE "user"

\* Balances the seed gives (GOLD and POINTS columns).
InitialBalance(k) ==
    CASE k[1] = "SYSTEM_TREASURY"   -> 10000000
      [] k[1] = "SYSTEM_BONUS_POOL" -> 5000000
      [] k[1] = "SYSTEM_REVENUE"    -> 0
      [] k[1] = "user_alice"        -> (IF k[2] = "GOLD" THEN 500 ELSE 1200)
      [] k[1] = "user_bob"          -> (IF k[2] = "GOLD" THEN 150 ELSE 300)

\* Creation order of the seed: system accounts per asset type, then users.
\* ObjectIds issued by one process grow with creation order.
SeedOrder ==
    << <<"SYSTEM_TREASURY", "GOLD">>, <<"SYSTEM_BONUS_POOL", "GOLD">>, <<"SYSTEM_REVENUE", "GOLD">>,
       <<"SYSTEM_TREASURY", "POINTS">>, <<"SYSTEM_BONUS_POOL", "POINTS">>, <<"SYSTEM_REVENUE", "POINTS">>,
       <<"user_alice", "GOLD">>, <<"user_alice", "POINTS">>,
       <<"user_bob", "GOLD">>, <<"user_bob", "POINTS">> >>

\* A creation order POST /api/admin/accounts can produce: wallets of the
\* users first, system accounts afterwards.
AdminOrder ==
    << <<"user_alice", "GOLD">>, <<"user_alice", "POINTS">>,
       <<"user_bob", "GOLD">>, <<"user_bob", "POINTS">>,
       <<"SYSTEM_TREASURY", "GOLD">>, <<"SYSTEM_BONUS_POOL", "GOLD">>, <<"SYSTEM_REVENUE", "GOLD">>,
       <<"SYSTEM_TREASURY", "POINTS">>, <<"SYSTEM_BONUS_POOL", "POINTS">>, <<"SYSTEM_REVENUE", "POINTS">> >>

AccountOrders == {SeedOrder, AdminOrder}

PositionIn(order, k) == CHOOSE i \in 1..Len(order) : order[i] = k

\* ------------------------------------------------------------ the requests

Keys == {"k1", "k2"}

Request(flow, amount, key) ==
    [flow |-> flow, userId |-> "user_alice", assetCode |-> "GOLD",
     amount |-> amount, idempotencyKey |-> key]

\* Requests against Alice's GOLD wallet (seeded with 500): top-ups that reuse
\* a key with another amount, a bonus, spends that fit, that take the whole
\* balance, that exceed it, and one with an amount validation rejects.
TopUpInputs == {Request("topUp", 100, "k1"), Request("topUp", 30, "k1")}

BonusInputs == {Request("issueBonus", 100, "k2")}

SpendInputs ==
    {Request("spend", 30, "k1"), Request("spend", 30, "k2"),
     Request("spend", 500, "k2"), Request("spend", 501, "k1"),
     Request("spend", 0 - 30, "k1")}

CallInputs == TopUpInputs \cup BonusInputs \cup SpendInputs

NoCall == [flow |-> "none", userId |-> "", assetCode |-> "", amount |-> 0, idempotencyKey |-> ""]

NoTransaction == [_id |-> 0, status |-> "none", amount |-> 0]

NoResult == [kind |-> "none", isIdempotentReplay |-> FALSE, transaction |-> NoTransaction, error |-> ""]

\* ------------------------------------------------------------------- Init

Init ==
    /\ \E order \in AccountOrders :
          accounts = [k \in AccountKeys |->
                        [_id |-> PositionIn(order, k),
                         userId |-> k[1],
                         accountType |-> AccountType(k),
                         assetType |-> k[2],
                         balance |-> InitialBalance(k),
                         isActive |-> TRUE]]
    /\ transactions = <<>>
    /\ ledger = {}
    /\ pc = [w \in Workers |-> "idle"]
    /\ call = [w \in Workers |-> NoCall]
    /\ txn = [w \in Workers |-> 0]
    /\ updatedFrom = [w \in Workers |-> <<>>]
    /\ updatedTo = [w \in Workers |-> <<>>]
    /\ created = [w \in Workers |-> {}]
    /\ err = [w \in Workers |-> ""]
    /\ result = [w \in Workers |-> NoResult]

\* ------------------------------------------------------------- resolvers

\* code.toUpperCase() on the codes a request may carry.
ToUpperCase(code) ==
    CASE code = "gold" -> "GOLD"
      [] code = "points" -> "POINTS"
      [] OTHER -> code

\* The system account each flow uses, and the transaction type it records.
SystemAccountOf(flow) ==
    CASE flow = "topUp" -> "SYSTEM_TREASURY"
      [] flow = "issueBonus" -> "SYSTEM_BONUS_POOL"
      [] flow = "spend" -> "SYSTEM_REVENUE"

TypeOf(flow) ==
    CASE flow = "topUp" -> "topup"
      [] flow = "issueBonus" -> "bonus"
      [] flow = "spend" -> "spend"

\* _getAssetType: "" when no active asset type has the code.
GetAssetType(code) == IF ToUpperCase(code) \in AssetCodes THEN ToUpperCase(code) ELSE ""

\* _getUserAccount: the error it throws, "" when it returns the account.
GetUserAccountError(userId, asset) ==
    IF <<userId, asset>> \notin DOMAIN accounts THEN "Wallet not found"
    ELSE IF ~accounts[<<userId, asset>>].isActive THEN "Wallet is inactive"
    ELSE ""

\* _getSystemAccount: the error it throws, "" when it returns the account.
GetSystemAccountError(userId, asset) ==
    IF <<userId, asset>> \notin DOMAIN accounts
       \/ accounts[<<userId, asset>>].accountType # "system"
    THEN "System account not found"
    ELSE ""

\* Variant: the facade hands the two accounts over in the opposite roles.
ResolveSwapped(in) ==
    LET asset == GetAssetType(in.assetCode)
        user  == <<in.userId, asset>>
        sys   == <<SystemAccountOf(in.flow), asset>>
        error == IF asset = "" THEN "Asset type not found or inactive"
                 ELSE IF GetUserAccountError(in.userId, asset) # ""
                      THEN GetUserAccountError(in.userId, asset)
                 ELSE GetSystemAccountError(SystemAccountOf(in.flow), asset)
    IN  [error |-> error,
         assetType |-> asset,
         fromAccount |-> IF in.flow = "spend" THEN sys ELSE user,
         toAccount |-> IF in.flow = "spend" THEN user ELSE sys,
         type |-> TypeOf(in.flow)]

\* topUp / issueBonus / spend up to their call of _executeTransfer: the
\* error thrown on the way ("" if none) and the parameters handed over.
Resolve(in) ==
    IF in.flow = "transfer"   \* _executeTransfer called with its parameters
    THEN [error |-> "",
          assetType |-> in.assetCode,
          fromAccount |-> in.fromAccount,
          toAccount |-> in.toAccount,
          type |-> in.type]
    ELSE
    LET asset == GetAssetType(in.assetCode)
        user  == <<in.userId, asset>>
        sys   == <<SystemAccountOf(in.flow), asset>>
        error == IF asset = "" THEN "Asset type not found or inactive"
                 ELSE IF GetUserAccountError(in.userId, asset) # ""
                      THEN GetUserAccountError(in.userId, asset)
                 ELSE GetSystemAccountError(SystemAccountOf(in.flow), asset)
    IN  [error |-> error,
         assetType |-> asset,
         fromAccount |-> IF in.flow = "spend" THEN user ELSE sys,
         toAccount |-> IF in.flow = "spend" THEN sys ELSE user,
         type |-> TypeOf(in.flow)]

\* Variant: the lookup passes over failed transactions, so that they are retried.
FindTransactionNotFailed(key, asset) ==
    {i \in 1..Len(transactions) :
        /\ transactions[i].idempotencyKey = key /\ transactions[i].assetType = asset
        /\ transactions[i].status # "failed"}

\* Variant: the lookup filters on the key alone.
FindTransactionAnyAsset(key, asset) ==
    {i \in 1..Len(transactions) : transactions[i].idempotencyKey = key}

\* Variant: the lookup filters on a key no stored transaction carries.
FindTransactionNone(key, asset) == {}

\* Transaction.findOne({idempotencyKey, assetType}): matching _ids.
FindTransaction(key, asset) ==
    {i \in 1..Len(transactions) :
        transactions[i].idempotencyKey = key /\ transactions[i].assetType = asset}

FirstOf(S) == CHOOSE i \in S : \A j \in S : i <= j

\* What a caller sees of a returned transaction (formatTransaction).
Snapshot(doc, id) == [_id |-> id, status |-> doc.status, amount |-> doc.amount]

Returned(doc, id, replay) ==
    [kind |-> "returned", isIdempotentReplay |-> replay,
     transaction |-> Snapshot(doc, id), error |-> ""]

Thrown(message) ==
    [kind |-> "thrown", isIdempotentReplay |-> FALSE,
     transaction |-> NoTransaction, error |-> message]

Finish(w, r) ==
    /\ pc' = [pc EXCEPT ![w] = "done"]
    /\ result' = [result EXCEPT ![w] = r]

\* Parameters of the _executeTransfer call handler w is in.
FromAccount(w) == Resolve(call[w]).fromAccount
ToAccount(w) == Resolve(call[w]).toAccount
AssetTypeId(w) == Resolve(call[w]).assetType
Amount(w) == call[w].amount

\* ---------------------------------------------------------------- actions

\* Variant: only the !amount half of the test.
InvalidAmountZeroOnly(amount) == amount = 0

\* Step 2's test: !amount || amount <= 0.
InvalidAmount(amount) == amount = 0 \/ amount <= 0

\* The facade and _executeTransfer steps 1-3: idempotency lookup, amount
\* validation, loading and checking both accounts.
Begin(w, in) ==
    /\ pc[w] = "idle"
    /\ \A v \in 1..(w - 1) : pc[v] # "idle"   \* handlers are numbered by arrival
    /\ call' = [call EXCEPT ![w] = in]
    /\ LET r == Resolve(in)
           existing == FindTransaction(in.idempotencyKey, r.assetType)
       IN  IF r.error # "" THEN Finish(w, Thrown(r.error))
           ELSE IF existing # {}
                THEN Finish(w, Returned(transactions[FirstOf(existing)], FirstOf(existing), TRUE))
           ELSE IF InvalidAmount(in.amount) THEN Finish(w, Thrown("Amount must be a positive number"))
           ELSE IF r.fromAccount \notin DOMAIN accounts THEN Finish(w, Thrown("Source account not found"))
           ELSE IF r.toAccount \notin DOMAIN accounts THEN Finish(w, Thrown("Destination account not found"))
           ELSE IF ~accounts[r.fromAccount].isActive THEN Finish(w, Thrown("Source account is inactive"))
           ELSE IF ~accounts[r.toAccount].isActive THEN Finish(w, Thrown("Destination account is inactive"))
           ELSE IF accounts[r.fromAccount].assetType # r.assetType
                   \/ accounts[r.toAccount].assetType # r.assetType
                THEN Finish(w, Thrown("Account asset type mismatch"))
           ELSE /\ pc' = [pc EXCEPT ![w] = "create"]
                /\ UNCHANGED result
    /\ UNCHANGED <<accounts, transactions, ledger, txn, updatedFrom, updatedTo, created, err>>

\* Variant: the index {idempotencyKey, assetType} not declared unique.
DuplicateKeyNoIndex(key, asset) == FALSE

\* The unique index {idempotencyKey, assetType} rejects the insert (E11000).
DuplicateKey(key, asset) ==
    \E i \in 1..Len(transactions) :
        transactions[i].idempotencyKey = key /\ transactions[i].assetType = asset

PendingTransaction(w) ==
    [idempotencyKey |-> call[w].idempotencyKey,
     assetType |-> AssetTypeId(w),
     fromAccount |-> FromAccount(w),
     toAccount |-> ToAccount(w),
     amount |-> Amount(w),
     type |-> Resolve(call[w]).type,
     status |-> "pending",
     ledgerEntries |-> <<>>,
     failureReason |-> ""]

\* Step 4: Transaction.create with status pending.
Create(w) ==
    /\ pc[w] = "create"
    /\ IF DuplicateKey(call[w].idempotencyKey, AssetTypeId(w))
       THEN /\ pc' = [pc EXCEPT ![w] = "reread"]
            /\ UNCHANGED <<transactions, txn>>
       ELSE /\ transactions' = Append(transactions, PendingTransaction(w))
            /\ txn' = [txn EXCEPT ![w] = Len(transactions) + 1]
            /\ pc' = [pc EXCEPT ![w] = "first"]
    /\ UNCHANGED <<accounts, ledger, call, updatedFrom, updatedTo, created, err, result>>

\* Variant: after the re-read the handler carries on with the transfer.
RereadRetries(w) ==
    /\ pc[w] = "reread"
    /\ LET raced == FindTransaction(call[w].idempotencyKey, AssetTypeId(w))
       IN  /\ raced # {}
           /\ txn' = [txn EXCEPT ![w] = FirstOf(raced)]
    /\ pc' = [pc EXCEPT ![w] = "first"]
    /\ UNCHANGED <<accounts, transactions, ledger, call, updatedFrom, updatedTo, created, err, result>>

\* Variant: the re-read marks a Transaction it finds pending as failed.
RereadHeals(w) ==
    /\ pc[w] = "reread"
    /\ LET raced == FindTransaction(call[w].idempotencyKey, AssetTypeId(w))
       IN  /\ raced # {}
           /\ transactions' =
                 [transactions EXCEPT ![FirstOf(raced)] =
                     IF @.status = "pending" THEN [@ EXCEPT !.status = "failed"] ELSE @]
           /\ Finish(w, Returned(transactions'[FirstOf(raced)], FirstOf(raced), TRUE))
    /\ UNCHANGED <<accounts, ledger, call, txn, updatedFrom, updatedTo, created, err>>

\* After the 50 ms sleep: re-fetch by the same key.
Reread(w) ==
    /\ pc[w] = "reread"
    /\ LET raced == FindTransaction(call[w].idempotencyKey, AssetTypeId(w))
       IN  IF raced # {}
           THEN Finish(w, Returned(transactions[FirstOf(raced)], FirstOf(raced), TRUE))
           ELSE Finish(w, Thrown("Transaction conflict"))
    /\ UNCHANGED <<accounts, transactions, ledger, call, txn, updatedFrom, updatedTo, created, err>>

\* --------------------------------------------------- atomic account updates

\* [fromAccountId, toAccountId].sort(): ObjectIds compare by their hex string,
\* which orders them as their _id numbers; equal ids keep the given order.
SortIds(a, b) == IF b < a THEN <<b, a>> ELSE <<a, b>>

\* Variant: the debit is always the first update.
ProcessInOrderAlways(w) == TRUE

\* processInOrder: the first id of the sorted pair is the source's.
ProcessInOrder(w) ==
    SortIds(accounts[FromAccount(w)]._id, accounts[ToAccount(w)]._id)[1]
        = accounts[FromAccount(w)]._id

\* Variant: the filter with balance: { $gt: amount }.
DebitFilterStrict(doc, amount) == doc.balance > amount /\ doc.isActive

\* Variant: the filter without balance: { $gte: amount }.
DebitFilterNoBalanceCheck(doc, amount) == doc.isActive

\* The filter of _atomicDebit's findOneAndUpdate on the account document.
DebitFilter(doc, amount) == doc.balance >= amount /\ doc.isActive

\* The filter of _atomicCredit's findOneAndUpdate on the account document.
CreditFilter(doc) == doc.isActive

\* $inc: { balance: -amount } and $inc: { balance: amount }.
Debited(doc, amount) == [doc EXCEPT !.balance = @ - amount]

Credited(doc, amount) == [doc EXCEPT !.balance = @ + amount]

\* _atomicDebit on the source: the updated document comes back, or the call throws.
AtomicDebit(w, next) ==
    IF DebitFilter(accounts[FromAccount(w)], Amount(w))
    THEN /\ accounts' = [accounts EXCEPT ![FromAccount(w)] = Debited(@, Amount(w))]
         /\ updatedFrom' = [updatedFrom EXCEPT ![w] = <<Debited(accounts[FromAccount(w)], Amount(w)).balance>>]
         /\ pc' = [pc EXCEPT ![w] = next]
         /\ UNCHANGED <<updatedTo, err>>
    ELSE /\ err' = [err EXCEPT ![w] = "Insufficient balance"]
         /\ pc' = [pc EXCEPT ![w] = "catch"]
         /\ UNCHANGED <<accounts, updatedFrom, updatedTo>>

\* _atomicCredit on the destination.
AtomicCredit(w, next) ==
    IF CreditFilter(accounts[ToAccount(w)])
    THEN /\ accounts' = [accounts EXCEPT ![ToAccount(w)] = Credited(@, Amount(w))]
         /\ updatedTo' = [updatedTo EXCEPT ![w] = <<Credited(accounts[ToAccount(w)], Amount(w)).balance>>]
         /\ pc' = [pc EXCEPT ![w] = next]
         /\ UNCHANGED <<updatedFrom, err>>
    ELSE /\ err' = [err EXCEPT ![w] = "Failed to credit account"]
         /\ pc' = [pc EXCEPT ![w] = "catch"]
         /\ UNCHANGED <<accounts, updatedFrom, updatedTo>>

\* Step 5, first await: the update of the account whose id sorts first.
FirstUpdate(w) ==
    /\ pc[w] = "first"
    /\ IF ProcessInOrder(w) THEN AtomicDebit(w, "second") ELSE AtomicCredit(w, "second")
    /\ UNCHANGED <<transactions, ledger, call, txn, created, result>>

\* Step 5, second await: the update of the other account.
SecondUpdate(w) ==
    /\ pc[w] = "second"
    /\ IF ProcessInOrder(w) THEN AtomicCredit(w, "ledger") ELSE AtomicDebit(w, "ledger")
    /\ UNCHANGED <<transactions, ledger, call, txn, created, result>>

\* ------------------------------------------------------------ ledger writes

\* Variant: both entries written against the source account.
LedgerEntryDocSameAccount(w, entryType) ==
    [_id |-> <<txn[w], entryType>>,
     transactionId |-> txn[w],
     account |-> FromAccount(w),
     assetType |-> AssetTypeId(w),
     entryType |-> entryType,
     amount |-> Amount(w),
     balanceAfter |-> IF entryType = "debit" THEN updatedFrom[w][1] ELSE updatedTo[w][1]]

\* Variant: balanceAfter read from the account when the entry is written.
LedgerEntryDocBalanceRead(w, entryType) ==
    [_id |-> <<txn[w], entryType>>,
     transactionId |-> txn[w],
     account |-> IF entryType = "debit" THEN FromAccount(w) ELSE ToAccount(w),
     assetType |-> AssetTypeId(w),
     entryType |-> entryType,
     amount |-> Amount(w),
     balanceAfter |-> IF entryType = "debit" THEN accounts[FromAccount(w)].balance
                      ELSE accounts[ToAccount(w)].balance]

\* Variant: both entries written with entryType debit.
LedgerEntryDocBothDebit(w, entryType) ==
    [_id |-> <<txn[w], entryType>>,
     transactionId |-> txn[w],
     account |-> IF entryType = "debit" THEN FromAccount(w) ELSE ToAccount(w),
     assetType |-> AssetTypeId(w),
     entryType |-> "debit",
     amount |-> Amount(w),
     balanceAfter |-> IF entryType = "debit" THEN updatedFrom[w][1] ELSE updatedTo[w][1]]

\* The two documents of step 6.
LedgerEntryDoc(w, entryType) ==
    [_id |-> <<txn[w], entryType>>,
     transactionId |-> txn[w],
     account |-> IF entryType = "debit" THEN FromAccount(w) ELSE ToAccount(w),
     assetType |-> AssetTypeId(w),
     entryType |-> entryType,
     amount |-> Amount(w),
     balanceAfter |-> IF entryType = "debit" THEN updatedFrom[w][1] ELSE updatedTo[w][1]]

\* Variant: the write replaces the account's previous entry of the same type.
CreateLedgerEntryUpsert(w, entryType) ==
    /\ pc[w] = "ledger"
    /\ entryType \notin created[w]
    /\ ledger' = {e \in ledger : e.account # LedgerEntryDoc(w, entryType).account
                                 \/ e.entryType # entryType}
                 \cup {LedgerEntryDoc(w, entryType)}
    /\ created' = [created EXCEPT ![w] = @ \cup {entryType}]
    /\ pc' = [pc EXCEPT ![w] = IF created'[w] = {"debit", "credit"} THEN "save" ELSE "ledger"]
    /\ UNCHANGED <<accounts, transactions, call, txn, updatedFrom, updatedTo, err, result>>

\* One LedgerEntry.create of the Promise.all; the two land in either order.
CreateLedgerEntry(w, entryType) ==
    /\ pc[w] = "ledger"
    /\ entryType \notin created[w]
    /\ ledger' = ledger \cup {LedgerEntryDoc(w, entryType)}
    /\ created' = [created EXCEPT ![w] = @ \cup {entryType}]
    /\ pc' = [pc EXCEPT ![w] = IF created'[w] = {"debit", "credit"} THEN "save" ELSE "ledger"]
    /\ UNCHANGED <<accounts, transactions, call, txn, updatedFrom, updatedTo, err, result>>

LedgerDebit(w) == CreateLedgerEntry(w, "debit")

LedgerCredit(w) == CreateLedgerEntry(w, "credit")

\* Variant: the entry ids are attached but the status is left as it was.
CompletedStatusKept(doc, w) ==
    [doc EXCEPT !.ledgerEntries = <<LedgerEntryDoc(w, "debit")._id, LedgerEntryDoc(w, "credit")._id>>]

\* Step 7: status completed, the two entry ids attached, saved and returned.
Completed(doc, w) ==
    [doc EXCEPT !.status = "completed",
                !.ledgerEntries = <<LedgerEntryDoc(w, "debit")._id, LedgerEntryDoc(w, "credit")._id>>]

Save(w) ==
    /\ pc[w] = "save"
    /\ transactions' = [transactions EXCEPT ![txn[w]] = Completed(@, w)]
    /\ Finish(w, Returned(Completed(transactions[txn[w]], w), txn[w], FALSE))
    /\ UNCHANGED <<accounts, ledger, call, txn, updatedFrom, updatedTo, created, err>>

\* Variant: the catch block's update without status.
FailedStatusKept(doc, message) == [doc EXCEPT !.failureReason = message]

\* Variant: the catch block's update without failureReason.
FailedNoReason(doc, message) == [doc EXCEPT !.status = "failed"]

\* The catch block: findByIdAndUpdate(status failed, failureReason), rethrow.
Failed(doc, message) == [doc EXCEPT !.status = "failed", !.failureReason = message]

Catch(w) ==
    /\ pc[w] = "catch"
    /\ transactions' = [transactions EXCEPT ![txn[w]] = Failed(@, err[w])]
    /\ Finish(w, Thrown(err[w]))
    /\ UNCHANGED <<accounts, ledger, call, txn, updatedFrom, updatedTo, created, err>>

\* ------------------------------------------------------------ specification

Next ==
    \E w \in Workers :
        \/ \E in \in CallInputs : Begin(w, in)
        \/ Create(w)
        \/ Reread(w)
        \/ FirstUpdate(w)
        \/ SecondUpdate(w)
        \/ LedgerDebit(w)
        \/ LedgerCredit(w)
        \/ Save(w)
        \/ Catch(w)

Spec == Init /\ [][Next]_vars

\* ------------------------------------------------------------- audit read

RECURSIVE SumAmounts(_)
SumAmounts(S) ==
    IF S = {} THEN 0
    ELSE LET e == CHOOSE x \in S : TRUE
         IN  (IF e.entryType = "credit" THEN e.amount ELSE 0 - e.amount) + SumAmounts(S \ {e})

Abs(x) == IF x < 0 THEN 0 - x ELSE x

\* verifyLedgerIntegrity on a resolvable wallet: credits minus debits over
\* every LedgerEntry of the account, compared with the cached balance
\* (|computed - cached| < 0.000001, in millionths).
VerifyLedgerIntegrity(userId, assetCode) ==
    LET account  == <<userId, GetAssetType(assetCode)>>
        computed == SumAmounts({e \in ledger : e.account = account})
    IN  [cachedBalance |-> accounts[account].balance,
         computedBalance |-> computed,
         isConsistent |-> Abs(computed - accounts[account].balance) * 1000000 < 1]

\* ------------------------------------------------------------ vocabulary

Alice == <<"user_alice", "GOLD">>

Started == {w \in Workers : pc[w] # "idle"}

Done == {w \in Workers : pc[w] = "done"}

\* No operation in flight.
AtRest == \A w \in Workers : pc[w] \in {"idle", "done"}

EntriesOf(t) == {e \in ledger : e.transactionId = t}

CompletedEntriesOn(k) ==
    {e \in ledger : e.account = k /\ transactions[e.transactionId].status = "completed"}

RECURSIVE SumCallAmounts(_)
SumCallAmounts(W) ==
    IF W = {} THEN 0
    ELSE LET w == CHOOSE x \in W : TRUE
         IN  call[w].amount + SumCallAmounts(W \ {w})

\* Handlers whose conditional debit matched.
DebitMatched == {w \in Workers : updatedFrom[w] # <<>>}

\* ------------------------------------------- replays after a balance change

\* A spend refused for lack of funds, a bonus that then makes the funds
\* sufficient, and the spend sent again: one handler more than the concurrent
\* ones, so that the third call can follow the other two.
ReplayWorkers == 1..(NumWorkers + 1)

ReplayInputs == {Request("spend", 501, "k1"), Request("issueBonus", 100, "k2")}

InitReplay ==
    /\ \E order \in AccountOrders :
          accounts = [k \in AccountKeys |->
                        [_id |-> PositionIn(order, k),
                         userId |-> k[1],
                         accountType |-> AccountType(k),
                         assetType |-> k[2],
                         balance |-> InitialBalance(k),
                         isActive |-> TRUE]]
    /\ transactions = <<>>
    /\ ledger = {}
    /\ pc = [w \in ReplayWorkers |-> "idle"]
    /\ call = [w \in ReplayWorkers |-> NoCall]
    /\ txn = [w \in ReplayWorkers |-> 0]
    /\ updatedFrom = [w \in ReplayWorkers |-> <<>>]
    /\ updatedTo = [w \in ReplayWorkers |-> <<>>]
    /\ created = [w \in ReplayWorkers |-> {}]
    /\ err = [w \in ReplayWorkers |-> ""]
    /\ result = [w \in ReplayWorkers |-> NoResult]

NextReplay ==
    \E w \in ReplayWorkers :
        \/ \E in \in ReplayInputs : Begin(w, in)
        \/ Create(w)
        \/ Reread(w)
        \/ FirstUpdate(w)
        \/ SecondUpdate(w)
        \/ LedgerDebit(w)
        \/ LedgerCredit(w)
        \/ Save(w)
        \/ Catch(w)

SpecReplay == InitReplay /\ [][NextReplay]_vars

\* ------------------------------------------ requests naming a system account

\* The endpoints take any userId; _getUserAccount does not filter on
\* accountType, so a system account's id resolves to that system account.
RequestFor(flow, userId, amount, key) ==
    [flow |-> flow, userId |-> userId, assetCode |-> "GOLD",
     amount |-> amount, idempotencyKey |-> key]

SelfInputs ==
    {RequestFor("spend", "SYSTEM_REVENUE", 30, "k1"),
     RequestFor("topUp", "SYSTEM_TREASURY", 100, "k2"),
     RequestFor("spend", "user_alice", 30, "k1")}

NextSelf ==
    \E w \in Workers :
        \/ \E in \in SelfInputs : Begin(w, in)
        \/ Create(w)
        \/ Reread(w)
        \/ FirstUpdate(w)
        \/ SecondUpdate(w)
        \/ LedgerDebit(w)
        \/ LedgerCredit(w)
        \/ Save(w)
        \/ Catch(w)

SpecSelf == Init /\ [][NextSelf]_vars

\* ------------------------------------------------------- store write errors

\* The message of an error the driver raises for a write (network error,
\* write-concern timeout); the code handles every such error alike.
StoreError == "MongoNetworkError"

OtherEntryType(entryType) == IF entryType = "debit" THEN "credit" ELSE "debit"

\* One LedgerEntry.create of the Promise.all rejects: Promise.all rejects at
\* once and control passes to the catch block. The other create was issued
\* with it; if it has not landed yet it lands all the same or is lost too.
LedgerCreateFails(w, entryType) ==
    /\ pc[w] = "ledger"
    /\ entryType \notin created[w]
    /\ \E lands \in BOOLEAN :
          /\ ledger' = IF lands /\ OtherEntryType(entryType) \notin created[w]
                       THEN ledger \cup {LedgerEntryDoc(w, OtherEntryType(entryType))}
                       ELSE ledger
          /\ created' = [created EXCEPT ![w] =
                            IF lands THEN @ \cup {OtherEntryType(entryType)} ELSE @]
    /\ err' = [err EXCEPT ![w] = StoreError]
    /\ pc' = [pc EXCEPT ![w] = "catch"]
    /\ UNCHANGED <<accounts, transactions, call, txn, updatedFrom, updatedTo, result>>

\* transaction.save() rejects: the update had reached the store before the
\* error came back (applied), or it had not.
SaveFails(w) ==
    /\ pc[w] = "save"
    /\ \E applied \in BOOLEAN :
          transactions' = IF applied
                          THEN [transactions EXCEPT ![txn[w]] = Completed(@, w)]
                          ELSE transactions
    /\ err' = [err EXCEPT ![w] = StoreError]
    /\ pc' = [pc EXCEPT ![w] = "catch"]
    /\ UNCHANGED <<accounts, ledger, call, txn, updatedFrom, updatedTo, created, result>>

\* Transaction.create rejects with an error other than E11000 (a validation
\* error, a lost connection): nothing is inserted and the error is rethrown
\* as it is, outside the try block that marks transactions failed.
CreateFails(w) ==
    /\ pc[w] = "create"
    /\ Finish(w, Thrown(StoreError))
    /\ UNCHANGED <<accounts, transactions, ledger, call, txn, updatedFrom, updatedTo, created, err>>

\* The update handler w is about to make is the debit.
NextIsDebit(w) == (pc[w] = "first") = ProcessInOrder(w)

\* The findOneAndUpdate of _atomicDebit or _atomicCredit rejects: the $inc
\* had been applied before the error came back, or it had not; either way no
\* updated document is returned and control passes to the catch block.
AccountUpdateFails(w) ==
    /\ pc[w] \in {"first", "second"}
    /\ \E applied \in BOOLEAN :
          accounts' =
              IF ~applied THEN accounts
              ELSE IF NextIsDebit(w)
              THEN IF DebitFilter(accounts[FromAccount(w)], Amount(w))
                   THEN [accounts EXCEPT ![FromAccount(w)] = Debited(@, Amount(w))]
                   ELSE accounts
              ELSE IF CreditFilter(accounts[ToAccount(w)])
                   THEN [accounts EXCEPT ![ToAccount(w)] = Credited(@, Amount(w))]
                   ELSE accounts
    /\ err' = [err EXCEPT ![w] = StoreError]
    /\ pc' = [pc EXCEPT ![w] = "catch"]
    /\ UNCHANGED <<transactions, ledger, call, txn, updatedFrom, updatedTo, created, result>>

FaultInputs ==
    {Request("topUp", 100, "k1"), Request("spend", 30, "k2"), Request("spend", 501, "k2")}

NextFault ==
    \E w \in Workers :
        \/ \E in \in FaultInputs : Begin(w, in)
        \/ Create(w)
        \/ CreateFails(w)
        \/ Reread(w)
        \/ FirstUpdate(w)
        \/ SecondUpdate(w)
        \/ AccountUpdateFails(w)
        \/ LedgerDebit(w)
        \/ LedgerCredit(w)
        \/ \E entryType \in {"debit", "credit"} : LedgerCreateFails(w, entryType)
        \/ Save(w)
        \/ SaveFails(w)
        \/ Catch(w)

SpecFault == Init /\ [][NextFault]_vars

\* ------------------------------------------ _executeTransfer called directly

\* The parameters of _executeTransfer as a caller other than the three flows
\* may pass them: the account ids and the asset type are the caller's.
Transfer(fromAccount, toAccount, assetCode, amount, key) ==
    [flow |-> "transfer", userId |-> "", assetCode |-> assetCode,
     fromAccount |-> fromAccount, toAccount |-> toAccount, type |-> "adjustment",
     amount |-> amount, idempotencyKey |-> key]

Revenue == <<"SYSTEM_REVENUE", "GOLD">>

Bob == <<"user_bob", "GOLD">>

\* No account has this id.
Carol == <<"user_carol", "GOLD">>

\* Transfers that pass the checks (one of them above the balance) and one
\* for each check that refuses: the amount, the source and the destination
\* found, both active, both of the asset type asked for.
TransferInputs ==
    {Transfer(Alice, Revenue, "GOLD", 30, "k1"),
     Transfer(Alice, Revenue, "GOLD", 501, "k2"),
     Transfer(Alice, Revenue, "GOLD", 0, "k2"),
     Transfer(Alice, Revenue, "GOLD", 0 - 30, "k2"),
     Transfer(Carol, Revenue, "GOLD", 30, "k2"),
     Transfer(Alice, Carol, "GOLD", 30, "k2"),
     Transfer(Bob, Revenue, "GOLD", 30, "k2"),
     Transfer(Alice, Bob, "GOLD", 30, "k2"),
     Transfer(Alice, <<"SYSTEM_REVENUE", "POINTS">>, "GOLD", 30, "k2"),
     Transfer(<<"user_alice", "POINTS">>, Revenue, "GOLD", 30, "k2")}

\* The store as seeded, with Bob's GOLD wallet deactivated: isActive is a
\* field of the Account schema that only a write from outside this code clears.
InitTransfer ==
    /\ \E order \in AccountOrders :
          accounts = [k \in AccountKeys |->
                        [_id |-> PositionIn(order, k),
                         userId |-> k[1],
                         accountType |-> AccountType(k),
                         assetType |-> k[2],
                         balance |-> InitialBalance(k),
                         isActive |-> k # Bob]]
    /\ transactions = <<>>
    /\ ledger = {}
    /\ pc = [w \in Workers |-> "idle"]
    /\ call = [w \in Workers |-> NoCall]
    /\ txn = [w \in Workers |-> 0]
    /\ updatedFrom = [w \in Workers |-> <<>>]
    /\ updatedTo = [w \in Workers |-> <<>>]
    /\ created = [w \in Workers |-> {}]
    /\ err = [w \in Workers |-> ""]
    /\ result = [w \in Workers |-> NoResult]

NextTransfer ==
    \E w \in Workers :
        \/ \E in \in TransferInputs : Begin(w, in)
        \/ Create(w)
        \/ Reread(w)
        \/ FirstUpdate(w)
        \/ SecondUpdate(w)
        \/ LedgerDebit(w)
        \/ LedgerCredit(w)
        \/ Save(w)
        \/ Catch(w)

SpecTransfer == InitTransfer /\ [][NextTransfer]_vars

\* ------------------------------------------- three spends one after another

\* Two spends that fit and one that exceeds the balance, each under its own
\* key, on three handlers, so that a refused spend can fall between two
\* completed ones.
ChainInputs ==
    {Request("spend", 30, "k1"), Request("spend", 501, "k2"), Request("spend", 30, "k3")}

NextChain ==
    \E w \in ReplayWorkers :
        \/ \E in \in ChainInputs : Begin(w, in)
        \/ Create(w)
        \/ Reread(w)
        \/ FirstUpdate(w)
        \/ SecondUpdate(w)
        \/ LedgerDebit(w)
        \/ LedgerCredit(w)
        \/ Save(w)
        \/ Catch(w)

SpecChain == InitReplay /\ [][NextChain]_vars

\* ------------------------------------------------- handlers that keep running

\* A handler that is neither cancelled nor crashed goes on: each awaited
\* store call returns or rejects and the code after it runs.
LiveInputs == {Request("topUp", 100, "k1"), Request("spend", 501, "k2")}

Continue(w) ==
    \/ Create(w)
    \/ Reread(w)
    \/ FirstUpdate(w)
    \/ SecondUpdate(w)
    \/ LedgerDebit(w)
    \/ LedgerCredit(w)
    \/ Save(w)
    \/ SaveFails(w)
    \/ Catch(w)

NextLive ==
    \E w \in Workers :
        \/ \E in \in LiveInputs : Begin(w, in)
        \/ Continue(w)

SpecLive == Init /\ [][NextLive]_vars /\ \A w \in Workers : WF_vars(Continue(w))

\* -------------------------------------------------------- the HTTP boundary

\* JSON values a key may arrive as: absent, a string (its characters), or a
\* non-zero number. A header is absent or a string.
Undefined == [kind |-> "undefined", chars |-> <<>>]

Str(chars) == [kind |-> "string", chars |-> chars]

Num == [kind |-> "number", chars |-> <<>>]

\* JavaScript truthiness of such a value: the empty string is falsy.
Truthy(v) == v.kind = "number" \/ (v.kind = "string" /\ v.chars # <<>>)

MinKeyLength == 8

RECURSIVE TrimStart(_)
TrimStart(s) == IF s # <<>> /\ Head(s) = " " THEN TrimStart(Tail(s)) ELSE s

RECURSIVE TrimEnd(_)
TrimEnd(s) ==
    IF s # <<>> /\ s[Len(s)] = " " THEN TrimEnd(SubSeq(s, 1, Len(s) - 1)) ELSE s

\* Variant: the key is measured and passed on as it came.
TrimNone(s) == s

\* String.prototype.trim on a sequence of characters.
Trim(s) == TrimEnd(TrimStart(s))

\* validateIdempotencyKey: next() with req.body.idempotencyKey set to the
\* trimmed key, or a 400 response with an error.
ValidateIdempotencyKey(req) ==
    LET key == IF Truthy(req.header) THEN req.header ELSE req.bodyKey
    IN  IF ~Truthy(key)
        THEN [next |-> FALSE, error |-> "Missing idempotency key", key |-> <<>>]
        ELSE IF key.kind # "string" \/ Len(Trim(key.chars)) < MinKeyLength
        THEN [next |-> FALSE,
              error |-> "Idempotency key must be a string of at least 8 characters.",
              key |-> <<>>]
        ELSE [next |-> TRUE, error |-> "", key |-> Trim(key.chars)]

\* The handlers' test of the required body fields.
MissingFields(req) ==
    \/ req.userId = "" \/ req.assetCode = "" \/ req.amount = 0
    \/ (req.flow = "spend" /\ req.itemId = "")

\* What the handler passes to topUp / issueBonus / spend.
EngineCall(req, key) ==
    [flow |-> req.flow, userId |-> req.userId, assetCode |-> req.assetCode,
     amount |-> req.amount, idempotencyKey |-> key, itemId |-> req.itemId,
     header |-> req.header, bodyKey |-> req.bodyKey]

\* A response the boundary sends without calling the engine.
Rejected(message) ==
    [kind |-> "rejected", isIdempotentReplay |-> FALSE,
     transaction |-> NoTransaction, error |-> message]

\* A write endpoint from the middleware to the engine call.
Route(w, req) ==
    /\ pc[w] = "idle"
    /\ \A v \in 1..(w - 1) : pc[v] # "idle"
    /\ LET checked == ValidateIdempotencyKey(req)
       IN  IF ~checked.next \/ MissingFields(req)
           THEN /\ call' = [call EXCEPT ![w] = EngineCall(req, checked.key)]
                /\ Finish(w, Rejected(IF ~checked.next THEN checked.error
                                      ELSE "Missing required fields"))
                /\ UNCHANGED <<accounts, transactions, ledger, txn, updatedFrom,
                               updatedTo, created, err>>
           ELSE Begin(w, EngineCall(req, checked.key))

\* err.message.includes('Insufficient'), over the messages the engine throws.
IncludesInsufficient(message) == message \in {"Insufficient balance"}

\* The status the catch block of a write endpoint answers with.
CatchStatus(flow, message) ==
    IF flow = "issueBonus" THEN 400
    ELSE IF IncludesInsufficient(message) THEN 422 ELSE 400

\* The HTTP status of the response handler w has sent.
StatusCode(w) ==
    CASE result[w].kind = "rejected" -> 400
      [] result[w].kind = "thrown" -> CatchStatus(call[w].flow, result[w].error)
      [] result[w].kind = "returned" -> IF result[w].isIdempotentReplay THEN 200 ELSE 201

Pad(n) == [i \in 1..n |-> " "]

Word(c, n) == [i \in 1..n |-> c]

HttpRequest(flow, userId, amount, header, bodyKey) ==
    [flow |-> flow, userId |-> userId, assetCode |-> "GOLD", amount |-> amount,
     itemId |-> IF flow = "spend" THEN "item_sword_of_fire" ELSE "",
     header |-> header, bodyKey |-> bodyKey]

\* Requests as they reach the router: the same key padded in the body and
\* bare in the header, no key, a number as key, a header of 8 characters of
\* which 7 remain after trimming, an unknown user, a spend above the balance,
\* and a spend with no amount.
RouteInputs ==
    {HttpRequest("spend", "user_alice", 30, Undefined,
                 Str(Pad(1) \o Word("a", MinKeyLength) \o Pad(2))),
     HttpRequest("spend", "user_alice", 30, Str(Word("a", MinKeyLength)), Undefined),
     HttpRequest("topUp", "user_alice", 100, Undefined, Undefined),
     HttpRequest("topUp", "user_alice", 100, Undefined, Num),
     HttpRequest("topUp", "user_alice", 100,
                 Str(Pad(1) \o Word("a", MinKeyLength - 1)),
                 Str(Word("a", MinKeyLength))),
     HttpRequest("spend", "user_carol", 30, Undefined, Str(Word("b", MinKeyLength))),
     HttpRequest("spend", "user_alice", 501, Undefined, Str(Word("b", MinKeyLength))),
     HttpRequest("spend", "user_alice", 0, Undefined, Str(Word("b", MinKeyLength)))}

NextRoute ==
    \E w \in Workers :
        \/ \E req \in RouteInputs : Route(w, req)
        \/ Create(w)
        \/ Reread(w)
        \/ FirstUpdate(w)
        \/ SecondUpdate(w)
        \/ LedgerDebit(w)
        \/ LedgerCredit(w)
        \/ Save(w)
        \/ Catch(w)

SpecRoute == Init /\ [][NextRoute]_vars

\* ------------------------------------------ one key, several users and assets

RequestOn(flow, userId, assetCode, amount, key) ==
    [flow |-> flow, userId |-> userId, assetCode |-> assetCode,
     amount |-> amount, idempotencyKey |-> key]

\* One key used by Alice to top up GOLD, by Alice to top up POINTS and by Bob
\* to spend GOLD, within his balance of 150 and above it.
KeyInputs ==
    {RequestOn("topUp", "user_alice", "GOLD", 100, "k1"),
     RequestOn("topUp", "user_alice", "POINTS", 100, "k1"),
     RequestOn("spend", "user_bob", "GOLD", 30, "k1"),
     RequestOn("spend", "user_bob", "GOLD", 151, "k1")}

NextKeys ==
    \E w \in Workers :
        \/ \E in \in KeyInputs : Begin(w, in)
        \/ Create(w)
        \/ Reread(w)
        \/ FirstUpdate(w)
        \/ SecondUpdate(w)
        \/ LedgerDebit(w)
        \/ LedgerCredit(w)
        \/ Save(w)
        \/ Catch(w)

SpecKeys == Init /\ [][NextKeys]_vars

\* ------------------------------------------------- amounts with a fraction

\* The routes pass Number(amount) on, a double that keeps its fraction.
\* Here balances and amounts are counted in quarters of one asset unit,
\* which doubles add and subtract exactly.
PartsPerUnit == 4

InitParts ==
    /\ \E order \in AccountOrders :
          accounts = [k \in AccountKeys |->
                        [_id |-> PositionIn(order, k),
                         userId |-> k[1],
                         accountType |-> AccountType(k),
                         assetType |-> k[2],
                         balance |-> InitialBalance(k) * PartsPerUnit,
                         isActive |-> TRUE]]
    /\ transactions = <<>>
    /\ ledger = {}
    /\ pc = [w \in Workers |-> "idle"]
    /\ call = [w \in Workers |-> NoCall]
    /\ txn = [w \in Workers |-> 0]
    /\ updatedFrom = [w \in Workers |-> <<>>]
    /\ updatedTo = [w \in Workers |-> <<>>]
    /\ created = [w \in Workers |-> {}]
    /\ err = [w \in Workers |-> ""]
    /\ result = [w \in Workers |-> NoResult]

\* Spends by Alice (500 GOLD) of 10.5, of 0.25 and of 500.5 GOLD.
PartInputs ==
    {Request("spend", 42, "k1"), Request("spend", 1, "k2"), Request("spend", 2002, "k3")}

NextParts ==
    \E w \in Workers :
        \/ \E in \in PartInputs : Begin(w, in)
        \/ Create(w)
        \/ Reread(w)
        \/ FirstUpdate(w)
        \/ SecondUpdate(w)
        \/ LedgerDebit(w)
        \/ LedgerCredit(w)
        \/ Save(w)
        \/ Catch(w)

SpecParts == InitParts /\ [][NextParts]_vars

\* ----------------------------------------------------------------- claims

\* C1: in every reachable state, whatever the interleaving of topUp,
\* issueBonus and spend calls (failed ones included), every account's
\* balance is >= 0.
C1_BalanceNeverNegative == \A k \in DOMAIN accounts : accounts[k].balance >= 0

\* Alice's wallet emptied by one spend while another spend was refused.
C1_Witness ==
    /\ accounts[Alice].balance = 0
    /\ \E w \in Done : call[w].flow = "spend" /\ result[w].error = "Insufficient balance"

\* C2: when only spend calls (of positive amounts) with pairwise different
\* keys run against Alice's wallet, the amounts of the debits that matched
\* never total more than the starting balance, and every finished call whose
\* debit did not match ended with the insufficient-balance error.
OnlyDistinctSpends ==
    \A w \in Started :
        /\ call[w].flow = "spend" /\ call[w].amount > 0
        /\ \A v \in Started \ {w} : call[v].idempotencyKey # call[w].idempotencyKey

C2_DebitsWithinBalance ==
    OnlyDistinctSpends =>
        /\ SumCallAmounts(DebitMatched) <= InitialBalance(Alice)
        /\ \A w \in Done \ DebitMatched : result[w] = Thrown("Insufficient balance")

\* Two spends in flight together ask for more than the balance: one has
\* debited and not yet finished, the other has just been refused.
C2_Witness ==
    /\ OnlyDistinctSpends
    /\ SumCallAmounts(Started) > InitialBalance(Alice)
    /\ \E w, v \in Started :
          /\ pc[w] \in {"second", "ledger", "save"} /\ w \in DebitMatched
          /\ pc[v] = "catch" /\ err[v] = "Insufficient balance"

\* C3: at most one Transaction exists per (idempotencyKey, assetType), and
\* all calls with that pair that return a transaction return the same _id.
C3_OneTransactionPerKey ==
    /\ \A i, j \in 1..Len(transactions) :
          (/\ transactions[i].idempotencyKey = transactions[j].idempotencyKey
           /\ transactions[i].assetType = transactions[j].assetType) => i = j
    /\ \A w, v \in Done :
          (/\ result[w].kind = "returned" /\ result[v].kind = "returned"
           /\ call[w].idempotencyKey = call[v].idempotencyKey
           /\ AssetTypeId(w) = AssetTypeId(v))
          => result[w].transaction._id = result[v].transaction._id

\* A handler lost the insert race on a key whose creator has returned.
C3_Witness ==
    \E w, v \in Workers :
        /\ pc[w] = "reread"
        /\ pc[v] = "done" /\ result[v].kind = "returned" /\ ~result[v].isIdempotentReplay
        /\ call[w].idempotencyKey = call[v].idempotencyKey

\* C4 as stated: when all the calls are identical spends (same key, an amount
\* that passes validation), the wallet is debited exactly once, exactly one
\* call returns isIdempotentReplay = false and every other returns true.
IdenticalSpends ==
    /\ Done = Workers
    /\ \A w, v \in Workers :
          call[w] = call[v] /\ call[w].flow = "spend" /\ call[w].amount > 0

Fresh == {w \in Workers : result[w].kind = "returned" /\ ~result[w].isIdempotentReplay}

Replays == {w \in Workers : result[w].kind = "returned" /\ result[w].isIdempotentReplay}

C4_Original ==
    IdenticalSpends =>
        /\ accounts[Alice].balance = InitialBalance(Alice) - call[1].amount
        /\ Cardinality(Fresh) = 1
        /\ Workers \ Fresh = Replays

\* C4 amended: identical valid spends debit the wallet at most once. If the balance
\* covers the amount it is debited exactly once and exactly one call returns
\* isIdempotentReplay = false; if not it is not debited and exactly one call
\* ends with the insufficient-balance error. Every other call returns
\* isIdempotentReplay = true.
C4_IdenticalSpendsOnce ==
    IdenticalSpends =>
        /\ Cardinality(Workers \ Replays) = 1
        /\ IF call[1].amount <= InitialBalance(Alice)
           THEN /\ accounts[Alice].balance = InitialBalance(Alice) - call[1].amount
                /\ Workers \ Replays = Fresh
           ELSE /\ accounts[Alice].balance = InitialBalance(Alice)
                /\ \A w \in Workers \ Replays : result[w] = Thrown("Insufficient balance")

\* Identical spends that overlapped: a replay saw the transaction still pending.
C4_Witness ==
    /\ IdenticalSpends
    /\ accounts[Alice].balance = InitialBalance(Alice) - call[1].amount
    /\ \E w \in Replays : result[w].transaction.status = "pending"

\* C5: a topUp call made after a topUp with the same key and parameters has
\* completed returns isIdempotentReplay = true with that transaction's _id,
\* changes no balance and adds no LedgerEntry.
SameTopUp(i, in) ==
    /\ transactions[i].status = "completed"
    /\ transactions[i].type = "topup"
    /\ transactions[i].idempotencyKey = in.idempotencyKey
    /\ transactions[i].assetType = GetAssetType(in.assetCode)
    /\ transactions[i].toAccount = <<in.userId, GetAssetType(in.assetCode)>>
    /\ transactions[i].amount = in.amount

C5_ReplaySameTopUp ==
    [][\A w \in Workers : \A i \in 1..Len(transactions) :
          (/\ pc[w] = "idle" /\ pc'[w] # "idle"
           /\ call'[w].flow = "topUp"
           /\ SameTopUp(i, call'[w]))
          => /\ result'[w].kind = "returned"
             /\ result'[w].isIdempotentReplay
             /\ result'[w].transaction._id = i
             /\ accounts' = accounts
             /\ ledger' = ledger]_vars

\* The second of two equal top-ups came back as a replay of the completed first.
C5_Witness ==
    \E w, v \in Done :
        /\ w # v /\ call[w] = call[v] /\ call[w].flow = "topUp"
        /\ result[v].kind = "returned" /\ ~result[v].isIdempotentReplay
        /\ result[w].kind = "returned" /\ result[w].isIdempotentReplay
        /\ result[w].transaction.status = "completed"
        /\ accounts[Alice].balance = InitialBalance(Alice) + call[v].amount

\* C6: a topUp call whose key and asset are those of an earlier topUp with
\* another amount returns the earlier Transaction (its _id, amount and
\* status) as a replay, and its own amount reaches no balance.
EarlierTopUp(i, in) ==
    /\ transactions[i].type = "topup"
    /\ transactions[i].idempotencyKey = in.idempotencyKey
    /\ transactions[i].assetType = GetAssetType(in.assetCode)
    /\ transactions[i].amount # in.amount

C6_ReplayIgnoresNewAmount ==
    [][\A w \in Workers : \A i \in 1..Len(transactions) :
          (/\ pc[w] = "idle" /\ pc'[w] # "idle"
           /\ call'[w].flow = "topUp"
           /\ EarlierTopUp(i, call'[w]))
          => /\ result'[w] = Returned(transactions[i], i, TRUE)
             /\ pc'[w] = "done"
             /\ accounts' = accounts
             /\ transactions' = transactions
             /\ ledger' = ledger]_vars

\* A top-up of 30 answered with the completed top-up of 100 made under its key.
C6_Witness ==
    \E w, v \in Done :
        /\ call[w].flow = "topUp" /\ call[v].flow = "topUp"
        /\ call[w].idempotencyKey = call[v].idempotencyKey
        /\ call[w].amount # call[v].amount
        /\ result[w].isIdempotentReplay
        /\ result[w].transaction.amount = call[v].amount
        /\ result[w].transaction.status = "completed"
        /\ accounts[Alice].balance = InitialBalance(Alice) + call[v].amount

\* C7 as stated: a spend of more than the wallet holds, made alone, fails
\* with the insufficient-balance error and leaves every balance as it was,
\* whichever of the two account ids sorts first.
C7_FailedSpendChangesNothing ==
    (/\ Started = {1} /\ pc[1] = "done"
     /\ call[1].flow = "spend"
     /\ call[1].amount > InitialBalance(Alice))
    => /\ result[1] = Thrown("Insufficient balance")
       /\ \A k \in DOMAIN accounts : accounts[k].balance = InitialBalance(k)

\* C8 as stated: at rest, every account's cached balance equals its credits
\* minus its debits over the LedgerEntries of completed Transactions, seeded
\* accounts with a non-zero initial balance included.
C8_BalanceEqualsLedger ==
    AtRest => \A k \in DOMAIN accounts :
                 accounts[k].balance = SumAmounts(CompletedEntriesOn(k))

\* C9 as stated: from the seed, after a completed topUp of 100 and a completed
\* spend of 30 for Alice and nothing in flight, verifyLedgerIntegrity returns
\* cachedBalance 570, computedBalance 570, isConsistent true.
TopUp100Spend30 ==
    /\ AtRest
    /\ Len(transactions) = 2
    /\ \E i, j \in 1..2 :
          /\ transactions[i].type = "topup" /\ transactions[i].amount = 100
          /\ transactions[i].status = "completed"
          /\ transactions[j].type = "spend" /\ transactions[j].amount = 30
          /\ transactions[j].status = "completed"

C9_VerifyAfterScenario ==
    TopUp100Spend30 =>
        VerifyLedgerIntegrity("user_alice", "GOLD")
            = [cachedBalance |-> 570, computedBalance |-> 570, isConsistent |-> TRUE]

\* C10: every completed Transaction has exactly two LedgerEntries referencing
\* it: a debit on its fromAccount and a credit on its toAccount, both of the
\* Transaction's amount.
C10_CompletedHasTwoEntries ==
    \A i \in 1..Len(transactions) :
        transactions[i].status = "completed" =>
            /\ Cardinality(EntriesOf(i)) = 2
            /\ \E d, c \in EntriesOf(i) :
                  /\ d.entryType = "debit" /\ d.account = transactions[i].fromAccount
                  /\ c.entryType = "credit" /\ c.account = transactions[i].toAccount
                  /\ d.amount = transactions[i].amount
                  /\ c.amount = transactions[i].amount

\* A completed transaction next to one that is pending with a single entry.
C10_Witness ==
    \E i, j \in 1..Len(transactions) :
        /\ transactions[i].status = "completed" /\ Cardinality(EntriesOf(i)) = 2
        /\ transactions[j].status = "pending" /\ Cardinality(EntriesOf(j)) = 1

\* C11: for every asset type, credits minus debits over the LedgerEntries of
\* completed Transactions of that asset type total 0.
CompletedEntriesOfAsset(a) ==
    {e \in ledger : e.assetType = a /\ transactions[e.transactionId].status = "completed"}

C11_CompletedLedgerSumsToZero ==
    \A a \in AssetCodes : SumAmounts(CompletedEntriesOfAsset(a)) = 0

\* Completed transfers are in the ledger while the whole ledger does not
\* balance: a transfer in flight has written one of its entries only.
C11_Witness ==
    /\ CompletedEntriesOfAsset("GOLD") # {}
    /\ SumAmounts({e \in ledger : e.assetType = "GOLD"}) # 0

\* C13 as stated: per asset type, the balances of all accounts total the same
\* in every state with no operation in flight as they did initially.
RECURSIVE SumBalances(_)
SumBalances(K) ==
    IF K = {} THEN 0
    ELSE LET k == CHOOSE x \in K : TRUE
         IN  accounts[k].balance + SumBalances(K \ {k})

RECURSIVE SumInitialBalances(_)
SumInitialBalances(K) ==
    IF K = {} THEN 0
    ELSE LET k == CHOOSE x \in K : TRUE
         IN  InitialBalance(k) + SumInitialBalances(K \ {k})

AccountsOfAsset(a) == {k \in AccountKeys : k[2] = a}

C13_TotalBalanceConserved ==
    AtRest =>
        \A a \in AssetCodes :
            SumBalances(AccountsOfAsset(a)) = SumInitialBalances(AccountsOfAsset(a))

\* C15: a spend of exactly the wallet's whole balance succeeds: it returns a
\* completed Transaction and leaves the wallet at 0.
FullBalanceSpend ==
    /\ Started = {1} /\ pc[1] = "done"
    /\ call[1].flow = "spend"
    /\ call[1].amount = InitialBalance(Alice)

C15_FullBalanceSpendSucceeds ==
    FullBalanceSpend =>
        /\ result[1].kind = "returned" /\ ~result[1].isIdempotentReplay
        /\ result[1].transaction.status = "completed"
        /\ transactions[result[1].transaction._id].status = "completed"
        /\ accounts[Alice].balance = 0

C15_Witness == FullBalanceSpend /\ accounts[Alice].balance = 0

\* C17 as stated: a finished call whose amount is 0 or negative has thrown
\* the validation error, whatever the store held when it arrived.
C17_Original ==
    \A w \in Done :
        call[w].amount <= 0 => result[w] = Thrown("Amount must be a positive number")

\* C17 amended: a call with an amount of 0 or less, for an existing asset type
\* and wallet, inserts no Transaction, touches no balance and writes no
\* LedgerEntry; it throws the validation error unless its key is already
\* stored for that asset, and then it returns the stored Transaction as a replay.
C17_InvalidAmountCreatesNothing ==
    [][\A w \in Workers :
          (/\ pc[w] = "idle" /\ pc'[w] # "idle"
           /\ call'[w].amount <= 0
           /\ Resolve(call'[w]).error = "")
          => LET existing == FindTransaction(call'[w].idempotencyKey,
                                             GetAssetType(call'[w].assetCode))
             IN  /\ pc'[w] = "done"
                 /\ transactions' = transactions
                 /\ accounts' = accounts
                 /\ ledger' = ledger
                 /\ IF existing = {}
                    THEN result'[w] = Thrown("Amount must be a positive number")
                    ELSE /\ result'[w].kind = "returned"
                         /\ result'[w].isIdempotentReplay
                         /\ result'[w].transaction._id \in existing]_vars

\* A negative amount was refused with the validation error while the store
\* already held another call's Transaction, and no second one was inserted.
C17_Witness ==
    \E w, v \in Done :
        /\ call[w].amount <= 0
        /\ result[w] = Thrown("Amount must be a positive number")
        /\ result[v].kind = "returned" /\ ~result[v].isIdempotentReplay
        /\ Len(transactions) = 1

\* C19: a call that completes moves its amount as its flow's row says: topUp
\* from SYSTEM_TREASURY to the user with type topup, issueBonus from
\* SYSTEM_BONUS_POOL to the user with type bonus, spend from the user to
\* SYSTEM_REVENUE with type spend; those two balances change by -amount and
\* +amount and no other balance changes.
FlowRow(in) ==
    CASE in.flow = "topUp" ->
           [from |-> <<"SYSTEM_TREASURY", in.assetCode>>,
            to |-> <<in.userId, in.assetCode>>, type |-> "topup"]
      [] in.flow = "issueBonus" ->
           [from |-> <<"SYSTEM_BONUS_POOL", in.assetCode>>,
            to |-> <<in.userId, in.assetCode>>, type |-> "bonus"]
      [] in.flow = "spend" ->
           [from |-> <<in.userId, in.assetCode>>,
            to |-> <<"SYSTEM_REVENUE", in.assetCode>>, type |-> "spend"]

LoneCompleted ==
    /\ Started = {1} /\ pc[1] = "done"
    /\ result[1].kind = "returned"
    /\ result[1].transaction.status = "completed"

C19_FlowMovesFundsPerRow ==
    LoneCompleted =>
        LET row == FlowRow(call[1])
            t == transactions[result[1].transaction._id]
        IN  /\ t.type = row.type
            /\ t.fromAccount = row.from /\ t.toAccount = row.to
            /\ accounts[row.from].balance = InitialBalance(row.from) - call[1].amount
            /\ accounts[row.to].balance = InitialBalance(row.to) + call[1].amount
            /\ \A k \in DOMAIN accounts \ {row.from, row.to} :
                  accounts[k].balance = InitialBalance(k)

\* A bonus was issued: the pool paid and the wallet received.
C19_Witness ==
    /\ LoneCompleted
    /\ call[1].flow = "issueBonus"
    /\ accounts[Alice].balance = InitialBalance(Alice) + call[1].amount

\* C20: no step updates or deletes a LedgerEntry: every entry in the ledger
\* before a step is in it, with the same fields, after the step.
C20_LedgerAppendOnly == [][ledger \subseteq ledger']_vars

\* Entries of two transfers on the same wallet stand side by side.
C20_Witness ==
    \E e, f \in ledger :
        /\ e.transactionId # f.transactionId
        /\ e.account = Alice /\ f.account = Alice
        /\ e.entryType = f.entryType

\* C16: a call whose key and asset are those of a stored Transaction in status
\* failed or completed is not executed again: it returns that Transaction as
\* stored with isIdempotentReplay = true and takes no further step; no
\* balance changes, nothing is written to the ledger or to the transactions,
\* whatever the source's balance has become.
Settled(i, in) ==
    /\ transactions[i].idempotencyKey = in.idempotencyKey
    /\ transactions[i].assetType = GetAssetType(in.assetCode)
    /\ transactions[i].status \in {"failed", "completed"}

C16_SettledKeyNotReExecuted ==
    [][\A w \in DOMAIN pc : \A i \in 1..Len(transactions) :
          (pc[w] = "idle" /\ pc'[w] # "idle" /\ Settled(i, call'[w]))
          => /\ pc'[w] = "done"
             /\ result'[w] = Returned(transactions[i], i, TRUE)
             /\ accounts' = accounts
             /\ ledger' = ledger
             /\ transactions' = transactions]_vars

\* The spend of 501 failed on a balance of 500, a bonus then completed, and
\* the spend sent again came back as the failed Transaction while the wallet
\* holds enough for it; the handlers have all finished and the wallet was
\* never debited.
C16_Witness ==
    /\ \A w \in DOMAIN pc : pc[w] = "done"
    /\ \E w \in DOMAIN pc :
          /\ call[w].flow = "spend"
          /\ result[w].kind = "returned" /\ result[w].isIdempotentReplay
          /\ result[w].transaction.status = "failed"
          /\ transactions[result[w].transaction._id].failureReason = "Insufficient balance"
          /\ accounts[Alice].balance >= call[w].amount
          /\ accounts[Alice].balance = InitialBalance(Alice) + 100

\* C18 as stated: a call whose source and destination resolve to the same
\* account is refused before a Transaction is inserted: no stored Transaction
\* has its source as its destination, and such a call has finished at once
\* with an error.
SelfTransfer(in) == Resolve(in).fromAccount = Resolve(in).toAccount

C18_SelfTransferRejected ==
    /\ \A i \in 1..Len(transactions) :
          transactions[i].fromAccount # transactions[i].toAccount
    /\ \A w \in Started :
          SelfTransfer(call[w]) => pc[w] = "done" /\ result[w].kind = "thrown"

\* C12 as stated: once the handler that created a Transaction has finished,
\* the credits minus the debits of the LedgerEntries referencing it total 0
\* and it is not referenced by exactly one LedgerEntry, also when one of the
\* two ledger writes was rejected.
CreatorFinished(i) == \E w \in DOMAIN pc : txn[w] = i /\ pc[w] = "done"

C12_FinishedTransactionBalanced ==
    \A i \in 1..Len(transactions) :
        CreatorFinished(i) =>
            /\ SumAmounts(EntriesOf(i)) = 0
            /\ Cardinality(EntriesOf(i)) # 1

\* C14 as stated: no step moves a stored Transaction out of completed or out
\* of failed, the catch block after a rejected final save included.
C14_TerminalStatusNeverChanges ==
    [][\A i \in 1..Len(transactions) :
          transactions[i].status \in {"completed", "failed"}
          => transactions'[i].status = transactions[i].status]_vars

\* C21 as stated: on every write endpoint an engine error is answered with the
\* status of its kind: InsufficientBalance 422, AssetNotFound and
\* WalletNotFound 404, TransactionConflict 409, validation errors 400,
\* anything else 500.
StatusOfKind(message) ==
    CASE message = "Insufficient balance" -> 422
      [] message \in {"Asset type not found or inactive", "Wallet not found"} -> 404
      [] message = "Transaction conflict" -> 409
      [] message = "Amount must be a positive number" -> 400
      [] OTHER -> 500

C21_ErrorStatusByKind ==
    \A w \in Done :
        result[w].kind = "thrown" => StatusCode(w) = StatusOfKind(result[w].error)

\* C22: a write request whose key (the header if present, else the body's)
\* is missing, not a string or shorter than 8 characters once trimmed is
\* answered 400 without the engine being called and without any change to
\* the store; any other request goes on with the trimmed key, which is the
\* key the engine receives.
KeyOf(req) ==
    IF req.header.kind = "string" /\ req.header.chars # <<>> THEN req.header
    ELSE req.bodyKey

\* t is s without its leading and trailing blanks.
IsTrimOf(t, s) ==
    /\ \E i, j \in 0..Len(s) : s = Pad(i) \o t \o Pad(j)
    /\ t = <<>> \/ (t[1] # " " /\ t[Len(t)] # " ")

BadKey(req) ==
    \/ KeyOf(req).kind = "undefined"
    \/ KeyOf(req).kind = "string" /\ KeyOf(req).chars = <<>>
    \/ KeyOf(req).kind # "string"
    \/ \E i, j \in 0..Len(KeyOf(req).chars) :
          /\ i + j <= Len(KeyOf(req).chars)
          /\ LET t == SubSeq(KeyOf(req).chars, i + 1, Len(KeyOf(req).chars) - j)
             IN  IsTrimOf(t, KeyOf(req).chars) /\ Len(t) < 8

C22_KeyValidatedAtBoundary ==
    [][\A w \in Workers :
          (pc[w] = "idle" /\ pc'[w] # "idle")
          => IF BadKey(call'[w])
             THEN /\ pc'[w] = "done"
                  /\ result'[w].kind = "rejected"
                  /\ StatusCode(w)' = 400
                  /\ transactions' = transactions
                  /\ accounts' = accounts
                  /\ ledger' = ledger
             ELSE /\ IsTrimOf(call'[w].idempotencyKey, KeyOf(call'[w]).chars)
                  /\ MissingFields(call'[w]) \/ result'[w].kind # "rejected"]_vars

\* A key sent with blanks around it in the body and bare in the header named
\* the same Transaction: the second request was answered as a replay; and a
\* Transaction is stored under the trimmed key.
C22_Witness ==
    \E w, v \in Done :
        /\ call[w].bodyKey.kind = "string"
        /\ call[w].bodyKey.chars # call[w].idempotencyKey
        /\ call[v].header.kind = "string"
        /\ result[w].kind = "returned" /\ result[v].kind = "returned"
        /\ result[w].transaction._id = result[v].transaction._id
        /\ transactions[result[w].transaction._id].idempotencyKey = Word("a", 8)

\* C23 as stated: when the credit on the destination fails after the debit on
\* the source has landed, the amount is put back on the source, so that once
\* the call has ended with its Transaction failed the source holds what it
\* held before the call.
DebitLandedCreditFailed(w) ==
    /\ pc[w] = "done" /\ txn[w] # 0
    /\ transactions[txn[w]].status = "failed"
    /\ updatedFrom[w] # <<>> /\ updatedTo[w] = <<>>
    /\ accounts[ToAccount(w)].balance = InitialBalance(ToAccount(w))

C23_FailedCreditIsCompensated ==
    (Started = {1} /\ DebitLandedCreditFailed(1))
    => accounts[FromAccount(1)].balance = InitialBalance(FromAccount(1))

Settles(i) ==
    Len(transactions) >= i
    ~> (Len(transactions) >= i /\ transactions[i].status \in {"completed", "failed"})

FirstExecutionNotPending ==
    \A w \in Workers :
        (result[w].kind = "returned" /\ ~result[w].isIdempotentReplay)
        => /\ result[w].transaction.status # "pending"
           /\ transactions[result[w].transaction._id].status # "pending"

DebitRefused(w) ==
    /\ pc[w] = "done" /\ txn[w] # 0
    /\ result[w] = Thrown("Insufficient balance")

C26_RefusedDebitLeavesNoEntry ==
    \A w \in Workers :
        DebitRefused(w) =>
            /\ transactions[txn[w]].status = "failed"
            /\ transactions[txn[w]].failureReason = "Insufficient balance"
            /\ EntriesOf(txn[w]) = {}

\* The order in which the credit comes first: the credit had been applied
\* when the debit was refused, and still no entry was written.
C26_Witness ==
    \E w \in Workers :
        /\ DebitRefused(w)
        /\ ~ProcessInOrder(w)
        /\ updatedTo[w] # <<>>
        /\ EntriesOf(txn[w]) = {}

\* C27: a call refused for its amount (0 or less), for a source or a
\* destination that is missing or inactive, or for an account of another
\* asset type than the one asked for leaves the store as it was: no
\* Transaction inserted, no LedgerEntry written, no balance changed.
Refusal(in) ==
    LET r == Resolve(in)
    IN  IF in.amount <= 0 THEN "Amount must be a positive number"
        ELSE IF r.fromAccount \notin AccountKeys THEN "Source account not found"
        ELSE IF r.toAccount \notin AccountKeys THEN "Destination account not found"
        ELSE IF r.fromAccount = Bob THEN "Source account is inactive"
        ELSE IF r.toAccount = Bob THEN "Destination account is inactive"
        ELSE IF r.fromAccount[2] # in.assetCode \/ r.toAccount[2] # in.assetCode
             THEN "Account asset type mismatch"
        ELSE ""

RefusalMessages ==
    {"Amount must be a positive number", "Source account not found",
     "Destination account not found", "Source account is inactive",
     "Destination account is inactive", "Account asset type mismatch"}

C27_RefusedCallChangesNothing ==
    [][\A w \in Workers :
          (/\ pc[w] = "idle" /\ pc'[w] # "idle"
           /\ Refusal(call'[w]) # ""
           /\ \A i \in 1..Len(transactions) :
                 transactions[i].idempotencyKey # call'[w].idempotencyKey)
          => /\ pc'[w] = "done"
             /\ result'[w] = Thrown(Refusal(call'[w]))
             /\ transactions' = transactions
             /\ ledger' = ledger
             /\ accounts' = accounts]_vars

\* A call was refused after a transfer had completed, and the store still
\* holds that one Transaction and its two entries only.
C27_Witness ==
    /\ Len(transactions) = 1 /\ transactions[1].status = "completed"
    /\ Cardinality(ledger) = 2
    /\ \E w \in Done : result[w].kind = "thrown" /\ result[w].error \in RefusalMessages

\* C28: a handler that finds a Transaction stored for its key and asset, at
\* the first lookup or at the re-read after a duplicate-key error, returns it
\* as stored with isIdempotentReplay = true, pending included, and changes
\* neither a Transaction nor a balance nor the ledger; the status of a
\* Transaction changes only in a step of the handler that inserted it.
C28_ReplayReturnsAsIs ==
    [][/\ \A w \in Workers :
             (pc[w] # "done" /\ pc'[w] = "done" /\ result'[w].isIdempotentReplay)
             => /\ pc[w] \in {"idle", "reread"}
                /\ \E i \in 1..Len(transactions) :
                      /\ transactions[i].idempotencyKey = call'[w].idempotencyKey
                      /\ transactions[i].assetType = GetAssetType(call'[w].assetCode)
                      /\ result'[w] = Returned(transactions[i], i, TRUE)
                /\ transactions' = transactions
                /\ accounts' = accounts
                /\ ledger' = ledger
       /\ \A i \in 1..Len(transactions) :
             transactions'[i].status # transactions[i].status
             => \E w \in Workers : txn[w] = i /\ pc'[w] # pc[w]]_vars

\* A handler was handed a Transaction still pending as a replay, while the
\* handler that inserted it has not finished, and the Transaction is as that
\* handler left it.
C28_Witness ==
    \E w, v \in Workers :
        /\ pc[w] = "done" /\ result[w].isIdempotentReplay
        /\ result[w].transaction.status = "pending"
        /\ txn[v] = result[w].transaction._id
        /\ pc[v] \in {"first", "second", "ledger", "save"}
        /\ transactions[txn[v]].status = "pending"

\* C29: a handler whose insert is refused as a duplicate re-reads by the same
\* key and asset and returns what it finds with isIdempotentReplay = true,
\* or throws the conflict error if it finds nothing; an insert refused for
\* another reason throws that error as it is; and a handler whose insert was
\* refused makes no debit, no credit and no ledger write.
StoredFor(w) ==
    {i \in 1..Len(transactions) :
        /\ transactions[i].idempotencyKey = call[w].idempotencyKey
        /\ transactions[i].assetType = GetAssetType(call[w].assetCode)}

StoreUntouched ==
    transactions' = transactions /\ accounts' = accounts /\ ledger' = ledger

C29_RefusedInsertOnlyReplays ==
    [][\A w \in Workers :
          /\ (pc[w] = "create" /\ pc'[w] = "first")
             => StoredFor(w) = {} /\ txn'[w] = Len(transactions) + 1
          /\ (pc[w] = "create" /\ pc'[w] = "reread")
             => StoredFor(w) # {} /\ StoreUntouched
          /\ (pc[w] = "create" /\ pc'[w] = "done")
             => result'[w] = Thrown(StoreError) /\ StoreUntouched
          /\ (pc[w] = "create" /\ pc'[w] # pc[w])
             => pc'[w] \in {"first", "reread", "done"}
          /\ (pc[w] = "reread" /\ pc'[w] # pc[w])
             => /\ pc'[w] = "done"
                /\ StoreUntouched
                /\ IF StoredFor(w) = {}
                   THEN result'[w] = Thrown("Transaction conflict")
                   ELSE \E i \in StoredFor(w) :
                           result'[w] = Returned(transactions[i], i, TRUE)
          /\ txn'[w] = 0
             => updatedFrom'[w] = <<>> /\ updatedTo'[w] = <<>> /\ created'[w] = {}]_vars

\* The handler that arrived first lost the insert to the one that arrived
\* after it and was handed that handler's Transaction as a replay, having
\* updated no account and written no entry.
C29_Witness ==
    \E w, v \in Workers :
        /\ w < v /\ txn[v] # 0 /\ txn[w] = 0
        /\ pc[w] = "done" /\ result[w].isIdempotentReplay
        /\ result[w].transaction._id = txn[v]
        /\ updatedFrom[w] = <<>> /\ updatedTo[w] = <<>> /\ created[w] = {}

\* C30: within one transfer the account with the smaller id is updated first:
\* the debit comes before the credit when the source's id is the smaller one
\* and the credit before the debit when the destination's is; and the second
\* update starts only after the first has returned.
SourceSortsFirst(w) == accounts[FromAccount(w)]._id < accounts[ToAccount(w)]._id

C30_UpdatesInIdOrder ==
    [][\A w \in Workers :
          /\ updatedFrom'[w] # updatedFrom[w]
             => /\ updatedTo'[w] = updatedTo[w]
                /\ IF SourceSortsFirst(w)
                   THEN pc[w] = "first" /\ updatedTo[w] = <<>>
                   ELSE pc[w] = "second" /\ updatedTo[w] # <<>>
          /\ updatedTo'[w] # updatedTo[w]
             => /\ updatedFrom'[w] = updatedFrom[w]
                /\ IF SourceSortsFirst(w)
                   THEN pc[w] = "second" /\ updatedFrom[w] # <<>>
                   ELSE pc[w] = "first" /\ updatedFrom[w] = <<>>]_vars

\* Two transfers between their updates: in one the debit has been made and
\* the credit not yet, in the other the credit and not yet the debit.
C30_Witness ==
    \E w \in Workers :
        /\ pc[w] = "second"
        /\ ~SourceSortsFirst(w)
        /\ updatedTo[w] # <<>> /\ updatedFrom[w] = <<>>
        /\ accounts[ToAccount(w)].balance # InitialBalance(ToAccount(w))
        /\ \E v \in Workers :
              /\ pc[v] = "second" /\ SourceSortsFirst(v)
              /\ updatedFrom[v] # <<>> /\ updatedTo[v] = <<>>

\* C31 as stated: each Transaction debits its source at most once and credits
\* its destination at most once; a completed one has done both exactly once
\* and a failed one has left no net change on any account. With no operation
\* in flight, then, every balance is its initial value plus the amounts of
\* the completed Transactions into the account minus those out of it.
RECURSIVE NetOfCompleted(_, _)
NetOfCompleted(k, I) ==
    IF I = {} THEN 0
    ELSE LET i == CHOOSE x \in I : TRUE
             t == transactions[i]
         IN  (IF t.status = "completed" /\ t.toAccount = k THEN t.amount ELSE 0)
             - (IF t.status = "completed" /\ t.fromAccount = k THEN t.amount ELSE 0)
             + NetOfCompleted(k, I \ {i})

C31_OnlyCompletedTransfersMoveFunds ==
    AtRest =>
        \A k \in AccountKeys :
            accounts[k].balance
                = InitialBalance(k) + NetOfCompleted(k, 1..Len(transactions))

\* C32 as stated: when one of the two ledger writes is rejected the engine
\* writes it again, up to 3 times, before it gives the Transaction up; so the
\* first rejection of a ledger write leaves the handler at the ledger step,
\* its Transaction still pending, and does not send it to the catch block.
C32_RejectedLedgerWriteIsRetried ==
    [][\A w \in Workers :
          (pc[w] = "ledger" /\ err[w] = "" /\ err'[w] # "")
          => /\ pc'[w] = "ledger"
             /\ transactions'[txn[w]].status = "pending"]_vars

\* C33 as stated: with no operation in flight, the LedgerEntries of each
\* account can be put in an order in which every entry's balanceAfter is the
\* previous entry's balanceAfter plus its amount (credit) or minus its
\* amount (debit).
EntriesOn(k) == {e \in ledger : e.account = k}

Signed(e) == IF e.entryType = "credit" THEN e.amount ELSE 0 - e.amount

HasChain(S) ==
    \/ Cardinality(S) <= 1
    \/ \E f \in [1..Cardinality(S) -> S] :
          /\ \A i, j \in 1..Cardinality(S) : i # j => f[i] # f[j]
          /\ \A i \in 2..Cardinality(S) :
                f[i].balanceAfter = f[i - 1].balanceAfter + Signed(f[i])

C33_BalanceAfterChain ==
    (\A w \in DOMAIN pc : pc[w] \in {"idle", "done"})
    => \A k \in AccountKeys : HasChain(EntriesOn(k))

\* C34: the balanceAfter of a LedgerEntry is the balance that the entry's own
\* transfer got back from its atomic update of that account: what the
\* account held just before that update, less the amount for the debit
\* entry, plus the amount for the credit entry.
C34_BalanceAfterIsOwnUpdate ==
    [][\A w \in Workers :
          /\ updatedFrom'[w] # updatedFrom[w]
             => /\ updatedFrom'[w] = <<accounts[FromAccount(w)].balance - Amount(w)>>
                /\ accounts'[FromAccount(w)].balance = updatedFrom'[w][1]
          /\ updatedTo'[w] # updatedTo[w]
             => /\ updatedTo'[w] = <<accounts[ToAccount(w)].balance + Amount(w)>>
                /\ accounts'[ToAccount(w)].balance = updatedTo'[w][1]
          /\ \A e \in ledger' \ ledger :
                e.transactionId = txn[w]
                => /\ e.entryType = "debit"
                      => e.account = FromAccount(w) /\ e.balanceAfter = updatedFrom[w][1]
                   /\ e.entryType = "credit"
                      => e.account = ToAccount(w) /\ e.balanceAfter = updatedTo[w][1]]_vars

\* A debit entry carries the balance its own debit returned, while the
\* wallet has since been debited again by another transfer.
C34_Witness ==
    \E e \in ledger : \E w \in Workers :
        /\ e.transactionId = txn[w] /\ e.entryType = "debit"
        /\ e.balanceAfter = updatedFrom[w][1]
        /\ e.balanceAfter = InitialBalance(e.account) - e.amount
        /\ accounts[e.account].balance < e.balanceAfter

\* C35: a call whose key is stored only with other asset types is no replay:
\* it creates its own Transaction, and once that Transaction is completed
\* its debit and credit entries stand on two accounts of its asset type.
C35_SameKeyOtherAssetIsFresh ==
    [][/\ \A w \in Workers :
          (/\ pc[w] = "idle" /\ pc'[w] # "idle"
           /\ \A i \in 1..Len(transactions) :
                 transactions[i].idempotencyKey = call'[w].idempotencyKey
                 => transactions[i].assetType # ToUpperCase(call'[w].assetCode))
          => /\ pc'[w] = "create"
             /\ result'[w] = NoResult
       /\ \A i \in 1..Len(transactions') :
             transactions'[i].status = "completed"
             => \E d, c \in {e \in ledger' : e.transactionId = i} :
                   /\ d.entryType = "debit" /\ c.entryType = "credit"
                   /\ d.account[2] = transactions'[i].assetType
                   /\ c.account[2] = transactions'[i].assetType
                   /\ d.amount = transactions'[i].amount
                   /\ c.amount = transactions'[i].amount]_vars

\* Alice's key k1 completed a top-up of GOLD and a top-up of POINTS, and both
\* of her wallets hold 100 more.
C35_Witness ==
    /\ AtRest
    /\ \E i, j \in 1..Len(transactions) :
          /\ transactions[i].idempotencyKey = transactions[j].idempotencyKey
          /\ transactions[i].assetType = "GOLD" /\ transactions[j].assetType = "POINTS"
          /\ transactions[i].status = "completed" /\ transactions[j].status = "completed"
          /\ transactions[i].type = "topup" /\ transactions[j].type = "topup"
    /\ \A w \in Workers : result[w].kind = "returned" /\ ~result[w].isIdempotentReplay
    /\ accounts[<<"user_alice", "GOLD">>].balance = InitialBalance(<<"user_alice", "GOLD">>) + 100
    /\ accounts[<<"user_alice", "POINTS">>].balance = InitialBalance(<<"user_alice", "POINTS">>) + 100

\* C36: a call whose key is already stored with its asset type, by whichever
\* user and flow, returns the stored Transaction as a replay at once: no
\* account, transaction or ledger entry changes and the handler is finished.
\* (The caller's own wallet and the system account resolve.)
C36_MatchIgnoresUserAndFlow ==
    [][\A w \in Workers :
          (pc[w] = "idle" /\ pc'[w] # "idle" /\ Resolve(call'[w]).error = "")
          => \A i \in 1..Len(transactions) :
                (/\ transactions[i].idempotencyKey = call'[w].idempotencyKey
                 /\ transactions[i].assetType = ToUpperCase(call'[w].assetCode))
                => /\ result'[w] = Returned(transactions[i], i, TRUE)
                   /\ pc'[w] = "done"
                   /\ accounts' = accounts
                   /\ transactions' = transactions
                   /\ ledger' = ledger]_vars

\* Bob's spend of GOLD got back Alice's completed top-up as a replay, and his
\* wallet holds what the seed gave it.
C36_Witness ==
    \E w \in Workers :
        /\ pc[w] = "done"
        /\ call[w].userId = "user_bob" /\ call[w].flow = "spend"
        /\ result[w].kind = "returned" /\ result[w].isIdempotentReplay
        /\ transactions[result[w].transaction._id].type = "topup"
        /\ transactions[result[w].transaction._id].toAccount = <<"user_alice", "GOLD">>
        /\ transactions[result[w].transaction._id].status = "completed"
        /\ accounts[<<"user_bob", "GOLD">>].balance = InitialBalance(<<"user_bob", "GOLD">>)

\* The whole number of units nearest to n quarters, a tie going to the even
\* one (every seeded asset type has decimalPlaces 0), in quarters.
RoundHalfEven(n) ==
    LET q == n \div PartsPerUnit
        r == n % PartsPerUnit
    IN  IF 2 * r < PartsPerUnit THEN q * PartsPerUnit
        ELSE IF 2 * r > PartsPerUnit THEN (q + 1) * PartsPerUnit
        ELSE IF q % 2 = 0 THEN q * PartsPerUnit
        ELSE (q + 1) * PartsPerUnit

\* C37: an amount with a fraction finer than the asset type's decimalPlaces
\* is rounded half-even on entry: a call whose amount rounds to 0 is rejected,
\* the Transaction of any other call stores the rounded amount, every
\* LedgerEntry carries the amount of its Transaction, and every balance
\* stays a whole number of units.
C37_AmountRoundedOnEntry ==
    /\ \A w \in Workers :
          /\ (pc[w] # "idle" /\ RoundHalfEven(call[w].amount) = 0)
             => pc[w] = "done" /\ result[w].kind = "thrown"
          /\ txn[w] # 0
             => transactions[txn[w]].amount = RoundHalfEven(call[w].amount)
    /\ \A e \in ledger :
          /\ e.amount = transactions[e.transactionId].amount
          /\ e.amount % PartsPerUnit = 0
    /\ \A k \in AccountKeys : accounts[k].balance % PartsPerUnit = 0

====
